---- MODULE Spec2Model ----
(***************************************************************************)
(* A model of the filtering extension of the bot:                          *)
(*   bot/exts/filtering/_filter_lists/filter_list.py  (FilterList)         *)
(*   bot/exts/filtering/filtering.py                  (Filtering cog)      *)
(*                                                                         *)
(* Python dicts are modelled as sequences of entries in insertion order    *)
(* (assigning to an existing key keeps its position, a new key is          *)
(* appended), Python lists as sequences, Python sets as sets.              *)
(***************************************************************************)
EXTENDS Integers, Sequences, FiniteSets, TLC

(***************************************************************************)
(* Bounds of the model.                                                    *)
(***************************************************************************)
\* Largest number of filters in the mapping handed to filter_list_result.
MaxFilters == 2

(***************************************************************************)
(* Domains the inputs are drawn from.                                      *)
(***************************************************************************)
\* Names of the validation settings a settings group can hold.
SettingNames == {"channel_scope", "filter_dm"}
\* Where a message can be posted, and what it can say.
Channels == {"mod", "general"}
Contents == {"spam", "ham"}
\* The value of a validation entry: the channels on which it passes.
ValidationValues == {{"mod"}, {"mod", "general"}}

\* A ValidationSettings group: setting name -> entry.  The group with no entry
\* stands for the None that a filter without validation overrides holds.
ValidationGroups ==
    UNION {[S -> ValidationValues] : S \in SUBSET SettingNames}

NoValidations == [n \in {} |-> {}]

\* The FilterContext fields the relevance algorithm reads.
RelContexts == [channel : Channels, content : Contents]

\* A Filter as filter_list_result sees it.
RelFilterBodies == [content : Contents, validations : ValidationGroups]

RelFilter(id, body) ==
    [id |-> id, content |-> body.content, validations |-> body.validations]

\* The filter mappings of at most MaxFilters filters; the filter at position i
\* has id i.
RelFilterMaps ==
    UNION {
        {[i \in 1..n |-> RelFilter(i, bodies[i])] :
            bodies \in [1..n -> RelFilterBodies]}
        : n \in 0..MaxFilters}

(***************************************************************************)
(* Collaborators of filter_list_result.                                    *)
(***************************************************************************)
\* ValidationSettings.evaluate: every entry of the group lands in exactly one
\* of the two sets, (passed, failed), named by its setting.
evaluate(group, ctx) ==
    << {n \in DOMAIN group : ctx.channel \in group[n]},
       {n \in DOMAIN group : ctx.channel \notin group[n]} >>

\* Filter.triggered_on: the filter's content matcher.
triggered_on(filter_, ctx) == filter_.content = ctx.content

\* Python's `x in list`.
InSeq(x, list) == \E i \in 1..Len(list) : list[i] = x

\* Python's set comparison a < b: a is a proper subset of b.
ProperSubset(a, b) == a \subseteq b /\ a # b

(***************************************************************************)
(* FilterList.filter_list_result                                           *)
(***************************************************************************)
\* Variants of the loop body of filter_list_result, each one plausible slip away
\* from it.
\* The branch for filters without overrides forgets the default answer.
IsRelevant_IgnoresDefaultAnswer(filter_, ctx, failed_by_default) ==
    IF DOMAIN filter_.validations = {}
    THEN triggered_on(filter_, ctx)
    ELSE LET ev == evaluate(filter_.validations, ctx)
         IN  /\ ev[2] = {}
             /\ ProperSubset(failed_by_default, ev[1])
             /\ triggered_on(filter_, ctx)

\* The branch for filters with overrides only asks that no override failed.
IsRelevant_NoSubsetCheck(filter_, ctx, failed_by_default) ==
    IF DOMAIN filter_.validations = {}
    THEN failed_by_default = {} /\ triggered_on(filter_, ctx)
    ELSE LET ev == evaluate(filter_.validations, ctx)
         IN  ev[2] = {} /\ triggered_on(filter_, ctx)

\* The operands of the set comparison are swapped.
IsRelevant_SwappedComparison(filter_, ctx, failed_by_default) ==
    IF DOMAIN filter_.validations = {}
    THEN failed_by_default = {} /\ triggered_on(filter_, ctx)
    ELSE LET ev == evaluate(filter_.validations, ctx)
         IN  /\ ev[2] = {}
             /\ ProperSubset(ev[1], failed_by_default)
             /\ triggered_on(filter_, ctx)

\* Whether the loop body appends filter_ to relevant_filters.
IsRelevantAndTriggered(filter_, ctx, failed_by_default) ==
    LET default_answer == failed_by_default = {}
    IN  IF DOMAIN filter_.validations = {}
        THEN default_answer /\ triggered_on(filter_, ctx)
        ELSE LET ev == evaluate(filter_.validations, ctx)
                 passed == ev[1]
                 failed == ev[2]
             IN  /\ failed = {}
                 /\ ProperSubset(failed_by_default, passed)
                 /\ triggered_on(filter_, ctx)

filter_list_result(ctx, filters, defaults) ==
    LET failed_by_default == evaluate(defaults, ctx)[2]
    IN  SelectSeq(filters,
                  LAMBDA f : IsRelevantAndTriggered(f, ctx, failed_by_default))

(***************************************************************************)
(* Settings: ActionSettings, and create_settings.                          *)
(***************************************************************************)
\* ListType.DENY and ListType.ALLOW.
DENY == 0
ALLOW == 1
ListTypes == {DENY, ALLOW}

\* An optional value: <<>> is Python's None, <<v>> holds v.
None == <<>>
Some(v) == <<v>>

\* The action settings: two flags, a duration and a message to send.
FlagActions == {"delete_messages", "send_alert"}
DurationActions == {"infraction_duration"}
MessageActions == {"dm_content"}
ActionNames == FlagActions \cup DurationActions \cup MessageActions

\* The value an action entry holds when the setting is unset but kept
\* (keep_empty): a no-op.
NoOpValue(name) ==
    IF name \in FlagActions THEN FALSE
    ELSE IF name \in DurationActions THEN 0
    ELSE <<>>

\* The combining rule of each setting type when both sides define the entry:
\* flags OR, durations MAX, messages concatenated.
CombineEntry(name, a, b) ==
    IF name \in FlagActions THEN a \/ b
    ELSE IF name \in DurationActions THEN (IF a >= b THEN a ELSE b)
    ELSE a \o b

\* ActionSettings.__or__ : the merge of two ActionSettings, per setting name.
MergeActions(a, b) ==
    [n \in (DOMAIN a) \cup (DOMAIN b) |->
        IF n \in DOMAIN a /\ n \in DOMAIN b THEN CombineEntry(n, a[n], b[n])
        ELSE IF n \in DOMAIN a THEN a[n]
        ELSE b[n]]

\* functools.reduce(operator.or_, actions) over a non-empty list: a left fold.
RECURSIVE ReduceOr(_)
ReduceOr(actions) ==
    IF Len(actions) = 1 THEN actions[1]
    ELSE MergeActions(ReduceOr(SubSeq(actions, 1, Len(actions) - 1)),
                      actions[Len(actions)])

\* ActionSettings.fallback_to: a filter's overrides win, the list's defaults
\* supply the entries the filter does not override.
fallback_to(overrides, action_defaults) ==
    [n \in (DOMAIN overrides) \cup (DOMAIN action_defaults) |->
        IF n \in DOMAIN overrides THEN overrides[n] ELSE action_defaults[n]]

\* create_settings: raw setting values (setting name -> optional value) are
\* split into the action entries and the validation entries.  An unset
\* action is kept as a no-op when keep_empty, and is absent otherwise; an
\* unset validation never takes part in an evaluation.
create_settings(settings_data, keep_empty) ==
    LET set_names == {n \in DOMAIN settings_data : settings_data[n] # None}
        action_names == IF keep_empty THEN ActionNames
                        ELSE ActionNames \cap set_names
    IN  [actions |->
            [n \in action_names |->
                IF n \in set_names THEN settings_data[n][1] ELSE NoOpValue(n)],
         validations |->
            [n \in SettingNames \cap set_names |-> settings_data[n][1]]]

(***************************************************************************)
(* Filters and the records they are built from.                            *)
(***************************************************************************)
\* Filter(filter_data): the constructor self.filter_type(filter_data) of a
\* record that is a mapping.
Filter(filter_data) ==
    LET settings == create_settings(filter_data.settings, FALSE)
    IN  [id |-> filter_data.id,
         content |-> filter_data.content,
         actions |-> settings.actions,
         validations |-> settings.validations]

\* d[key] = value on a dict of filters keyed by id: an existing key keeps its
\* position, a new key goes last.
DictSet(d, filter_) ==
    IF \E i \in 1..Len(d) : d[i].id = filter_.id
    THEN [i \in 1..Len(d) |-> IF d[i].id = filter_.id THEN filter_ ELSE d[i]]
    ELSE Append(d, filter_)

DictKeys(d) == {d[i].id : i \in 1..Len(d)}

(***************************************************************************)
(* FilterList                                                              *)
(***************************************************************************)
\* FilterList.__init__ : three empty dicts keyed by list type.
NewFilterList ==
    [list_ids |-> [t \in {} |-> 0],
     defaults |-> [t \in {} |-> 0],
     filter_lists |-> [t \in {} |-> <<>>]]

\* d[key] = value on a dict keyed by list type.
TypeDictSet(d, key, value) ==
    [t \in (DOMAIN d) \cup {key} |-> IF t = key THEN value ELSE d[t]]

\* add_list, lines 55-57: the defaults of the list type.
add_list_defaults(fl, list_data) ==
    [fl EXCEPT !.defaults =
        TypeDictSet(fl.defaults, list_data.list_type,
                    create_settings(list_data.settings, TRUE))]

\* add_list as it would be without line 58.
add_list_id_missing(fl, list_data) == fl

\* add_list, line 58: the id of the list type.
add_list_id(fl, list_data) ==
    [fl EXCEPT !.list_ids =
        TypeDictSet(fl.list_ids, list_data.list_type, list_data.id)]

\* A variant of line 60 that keeps the filters the list type already holds.
add_list_keeps_filters(fl, list_data) ==
    IF list_data.list_type \in DOMAIN fl.filter_lists THEN fl
    ELSE [fl EXCEPT !.filter_lists =
            TypeDictSet(fl.filter_lists, list_data.list_type, <<>>)]

\* add_list, line 60: the list type's filters start from an empty dict.
add_list_reset(fl, list_data) ==
    [fl EXCEPT !.filter_lists =
        TypeDictSet(fl.filter_lists, list_data.list_type, <<>>)]

\* What add_filter's one statement does with a record: "ok" stores the filter,
\* "TypeError" is caught and logged, "KeyError" leaves add_filter.
\*   - a record that is no mapping makes the constructor (or the subscript
\*     filter_data["id"]) raise TypeError;
\*   - a mapping without "id" makes filter_data["id"] raise KeyError;
\*   - a list type the FilterList does not hold makes
\*     self.filter_lists[list_type] raise KeyError.
add_filter_outcome(fl, filter_data, list_type) ==
    IF filter_data.shape = "not_a_dict" THEN "TypeError"
    ELSE IF list_type \notin DOMAIN fl.filter_lists THEN "KeyError"
    ELSE IF filter_data.shape = "no_id" THEN "KeyError"
    ELSE "ok"

\* add_filter: the FilterList after the call (unchanged unless "ok").
add_filter(fl, filter_data, list_type) ==
    IF add_filter_outcome(fl, filter_data, list_type) = "ok"
    THEN [fl EXCEPT !.filter_lists[list_type] =
            DictSet(fl.filter_lists[list_type], Filter(filter_data))]
    ELSE fl

\* The FilterContext a list evaluates: actions_for hands filter_list_result
\* the context's channel and content.
\* actions_for: for each list type the list holds, the filters that
\* filter_list_result returns, each with its actions (its overrides falling
\* back to the list type's default actions); all of them merged, and a
\* message naming the filters.  (None, None) when no filter triggered.
TriggeredOf(fl, ctx, t) ==
    filter_list_result(ctx, fl.filter_lists[t], fl.defaults[t].validations)

ActionsOfType(fl, ctx, t) ==
    LET triggers == TriggeredOf(fl, ctx, t)
    IN  [i \in 1..Len(triggers) |->
            fallback_to(triggers[i].actions, fl.defaults[t].actions)]

MessageOfType(fl, ctx, t) ==
    LET triggers == TriggeredOf(fl, ctx, t)
    IN  [i \in 1..Len(triggers) |-> <<triggers[i].id, triggers[i].content>>]

TypeSeq(fl, per_type) ==
    (IF DENY \in DOMAIN fl.filter_lists THEN per_type[DENY] ELSE <<>>)
        \o (IF ALLOW \in DOMAIN fl.filter_lists THEN per_type[ALLOW] ELSE <<>>)

actions_for(fl, ctx) ==
    LET types == DOMAIN fl.filter_lists
        all_actions == TypeSeq(fl, [t \in types |-> ActionsOfType(fl, ctx, t)])
        message == TypeSeq(fl, [t \in types |-> MessageOfType(fl, ctx, t)])
    IN  IF all_actions = <<>>
        THEN [actions |-> None, message |-> <<>>]
        ELSE [actions |-> Some(ReduceOr(all_actions)), message |-> message]

(***************************************************************************)
(* What the definition source (the API) and the chat platform can send.    *)
(***************************************************************************)
\* Most filter lists the API returns in one response.
MaxRaw == 2
\* Most filter records in one filter list of the response.
MaxRawFilters == 2
\* Most messages the platform delivers.
MaxMessages == 1
\* Most `filter add` commands a moderator runs.
MaxCommands == 1
\* Largest number of calls of subscribe.
MaxSubscribes == 3

\* The names with a FilterList class (filter_list_types), a name without one,
\* and the events each class subscribes to when it is constructed.
KnownNames == {"token", "invite"}
UnknownNames == {"ghost"}
Events == {"MESSAGE", "MESSAGE_EDIT"}
\* The filter lists that subscribe.
SubLists == KnownNames \cup {"domain"}
ClassEvents(name) ==
    IF name = "token" THEN {"MESSAGE", "MESSAGE_EDIT"} ELSE {"MESSAGE"}

\* Raw settings: every setting name, set to a value or unset.
AllSettingNames == ActionNames \cup SettingNames
RawSettings(values) ==
    [n \in AllSettingNames |->
        IF n \in DOMAIN values THEN Some(values[n]) ELSE None]

\* The settings a filter list record can carry.
ListSettingsA ==
    RawSettings([delete_messages |-> TRUE, dm_content |-> <<"a">>])
ListSettingsB ==
    RawSettings([send_alert |-> TRUE, infraction_duration |-> 1,
                 dm_content |-> <<"b">>, channel_scope |-> {"mod"}])
RawListSettings == {ListSettingsA, ListSettingsB}

\* The settings a filter record can carry: no override, or overrides.
NoOverrides == RawSettings([n \in {} |-> 0])
SomeOverrides ==
    RawSettings([channel_scope |-> {"mod", "general"}, dm_content |-> <<"c">>])

\* Filter records.  shape tells what the record is: a well-formed mapping
\* ("ok"), a mapping without the "id" field ("no_id"), or no mapping at all
\* ("not_a_dict").
OkFilter(id, content, settings) ==
    [shape |-> "ok", id |-> id, content |-> content, settings |-> settings]
NoIdFilter ==
    [shape |-> "no_id", id |-> 0, content |-> "spam", settings |-> NoOverrides]
NotADictFilter ==
    [shape |-> "not_a_dict", id |-> 0, content |-> "", settings |-> NoOverrides]

RawFilters ==
    {OkFilter(1, "spam", NoOverrides), OkFilter(2, "spam", SomeOverrides),
     NoIdFilter, NotADictFilter}

\* The id the database issued for a filter list.
ListId(name, list_type) == IF name = "token" THEN 10 + list_type ELSE 20 + list_type

\* Filter list records of the response.  The response is taken as it is read:
\* cog_load and add_list never look ahead, so the filters field holds the
\* filter records add_list has reached so far, and whether more follow is
\* decided when the loop asks for the next one.
RawList(name, list_type, settings) ==
    [name |-> name, list_type |-> list_type, id |-> ListId(name, list_type),
     settings |-> settings, filters |-> <<>>]

RawLists ==
    {RawList(n, t, st) :
        n \in KnownNames, t \in ListTypes, st \in RawListSettings}
    \cup {RawList(n, DENY, ListSettingsA) : n \in UnknownNames}

NoRecord == RawList("", DENY, NoOverrides)

\* The arguments of `filter add`: an optional list type, an optional list
\* name, the content of the new filter.
ListNameArgs == {"token", "tokens", "Token", "invite", "nosuch"}
CommandArgs ==
    [list_type : {None} \cup {Some(t) : t \in ListTypes},
     list_name : {None} \cup {Some(n) : n \in ListNameArgs},
     content : {"spam"}]
NoArgs == [list_type |-> None, list_name |-> None, content |-> ""]

\* The id the API gives a filter it persisted.
NewFilterId == 3

\* What the API answers to the POST of a new filter: the persisted record,
\* or a record as broken as those a response of filter lists can hold.
PostResults(content, Broken) ==
    {OkFilter(NewFilterId, content, NoOverrides)} \cup Broken

\* Messages of the platform: the author is a bot or not, the message came
\* through a webhook or not, and where it was posted and what it says.
Messages ==
    [bot : BOOLEAN, webhook_id : BOOLEAN, channel : Channels, content : Contents]

\* FilterContext(Event.MESSAGE, ...) of a message.
FilterContext(event, msg) ==
    [event |-> event, channel |-> msg.channel, content |-> msg.content,
     send_alert |-> FALSE, action_descriptions |-> {}]

NoContext ==
    FilterContext("", [channel |-> "", content |-> ""])

\* What _resolve_action returns: (result_actions, messages).
NoResult == [actions |-> None, messages |-> <<>>]

(***************************************************************************)
(* State.                                                                  *)
(***************************************************************************)
VARIABLES
    \* filter_list_result on its own
    relPc,        \* "call" before filter_list_result ran, "done" after
    relCtx,       \* its ctx argument
    relFilters,   \* its filters argument
    relDefaults,  \* its defaults argument
    relResult,    \* the list it returned
    \* the Filtering cog
    filter_lists,    \* Filtering.filter_lists: name -> FilterList
    subscriptions,   \* Filtering._subscriptions: event -> list of FilterLists
    subLog,          \* the calls of subscribe so far: (filter list, events)
    already_warned,  \* cog_load's already_warned
    warnings,        \* the names log.warning was called with, in order
    webhook,         \* whether Filtering.webhook holds a webhook (not None)
    \* the event loop
    running,      \* the task that holds the event loop, "none" between tasks
    \* the task that runs cog_load
    loadPc,       \* where cog_load stands
    loadRec,      \* raw_filter_list, the record cog_load is loading
    loadCount,    \* how many records of the response have been taken
    alEntry,      \* the FilterList as it was when add_list was entered
    boundary,     \* name -> the FilterList as it was when the last add_list
                  \* or add_filter call on it ended (or when it was created)
    \* the task that runs on_message
    msgPc,        \* where on_message stands
    msgCount,     \* how many messages were delivered
    msgCtx,       \* ctx, the FilterContext of the message
    msgIdx,       \* _resolve_action: position in self._subscriptions[ctx.event]
    msgActions,   \* _resolve_action: actions
    msgMessages,  \* _resolve_action: messages
    msgResult,    \* what _resolve_action returned
    msgCalled,    \* the filter lists whose actions_for was awaited, in order
    msgSeen,      \* per call of actions_for: what the list returned, the list
                  \* as the call read it, and the list as its last add_list or
                  \* add_filter call left it
    msgStart,     \* Filtering.filter_lists as it was when on_message began
    msgAuthor,    \* msg.author.bot and msg.webhook_id of the last message
    alerts,       \* the calls of _send_alert for the message at hand: the
                  \* (ctx, messages) pair handed over, and whether a webhook
                  \* was there to send it
    \* the task that runs the `filter add` command (f_add)
    cmdPc,        \* where f_add stands
    cmdCount,     \* how many commands were run
    cmdArgs,      \* the arguments list_type, list_name and content
    cmdType,      \* list_type once resolved
    cmdList,      \* the name under which filter_list is registered
    cmdOut        \* how the command ended

relVars == <<relPc, relCtx, relFilters, relDefaults, relResult>>
cogVars == <<filter_lists, subscriptions, subLog, already_warned, warnings,
            webhook>>
loadVars == <<loadPc, loadRec, loadCount, alEntry>>

msgVars == <<msgPc, msgCount, msgCtx, msgIdx, msgActions, msgMessages,
             msgResult, msgCalled, msgSeen, msgStart, msgAuthor, alerts>>

cmdVars == <<cmdPc, cmdCount, cmdArgs, cmdType, cmdList, cmdOut>>

vars == <<relVars, cogVars, running, loadVars, boundary, msgVars, cmdVars>>

(***************************************************************************)
(* Initial states.                                                         *)
(***************************************************************************)
\* The author of a message that is neither by a bot nor from a webhook.
NoAuthor == [bot |-> FALSE, webhook_id |-> FALSE]

\* Filtering.filter_lists without any filter list.
NoLists == [n \in {} |-> NewFilterList]

\* Filtering.__init__ : no filter list, no subscription; nothing runs.
CogInit ==
    /\ filter_lists = NoLists
    /\ subscriptions = [e \in Events |-> <<>>]
    /\ subLog = <<>>
    /\ already_warned = {}
    /\ warnings = <<>>
    /\ webhook = FALSE
    /\ running = "none"
    /\ loadPc = "start"
    /\ loadRec = NoRecord
    /\ loadCount = 0
    /\ alEntry = NewFilterList
    /\ boundary = NoLists
    /\ msgPc = "idle"
    /\ msgCount = 0
    /\ msgCtx = NoContext
    /\ msgIdx = 0
    /\ msgActions = <<>>
    /\ msgMessages = <<>>
    /\ msgResult = NoResult
    /\ msgCalled = <<>>
    /\ msgSeen = <<>>
    /\ msgStart = NoLists
    /\ msgAuthor = NoAuthor
    /\ alerts = <<>>
    /\ cmdPc = "idle"
    /\ cmdCount = 0
    /\ cmdArgs = NoArgs
    /\ cmdType = DENY
    /\ cmdList = ""
    /\ cmdOut = ""

RelIdle ==
    /\ relPc = "unused"
    /\ relCtx = [channel |-> "mod", content |-> "spam"]
    /\ relFilters = <<>>
    /\ relDefaults = NoValidations
    /\ relResult = <<>>

(***************************************************************************)
(* The relevance algorithm on its own: every input, one call.              *)
(***************************************************************************)
RelInit ==
    /\ relPc = "call"
    /\ relCtx \in RelContexts
    /\ relFilters \in RelFilterMaps
    /\ relDefaults \in ValidationGroups
    /\ relResult = <<>>
    /\ CogInit

FilterListResultCall ==
    /\ relPc = "call"
    /\ relResult' = filter_list_result(relCtx, relFilters, relDefaults)
    /\ relPc' = "done"
    /\ UNCHANGED <<relCtx, relFilters, relDefaults>>
    /\ UNCHANGED <<cogVars, running, loadVars, boundary, msgVars, cmdVars>>

RelNext == FilterListResultCall

SpecRel == RelInit /\ [][RelNext]_vars

(***************************************************************************)
(* The event loop.  Tasks are cooperative: a task that holds the event     *)
(* loop keeps it until it reaches an await.                                *)
(***************************************************************************)
\* cog_load as it would be if add_list awaited inside its loop over the
\* filter records (an asynchronous add_filter).
LoadAwaits_InAddList == {"start", "webhook", "done", "raised", "al_loop"}

\* The positions at which cog_load is suspended at an await (or has ended):
\* lines 53 and 56 before the loop, line 71 after it.
LoadAwaits == {"start", "webhook", "done", "raised"}

\* Whether the task gives up the event loop when it reaches pc.
\* on_message is suspended at every await: each actions_for (line 393),
\* the actions (line 154), the alert (line 156).
MsgAwaits == {"idle", "loop", "resolved", "acted", "done", "raised"}

Suspends(task, pc) ==
    IF task = "load" THEN pc \in LoadAwaits
    ELSE IF task = "msg" THEN pc \in MsgAwaits
    ELSE TRUE

MayRun(task) == running \in {"none", task}
After(task, pc) == IF Suspends(task, pc) THEN "none" ELSE task

(***************************************************************************)
(* Filtering.subscribe                                                     *)
(***************************************************************************)
\* subscribe as it would be without the test of line 91.
subscribe_always_appends(subs, filter_list, events) ==
    [e \in DOMAIN subs |->
        IF e \in events THEN Append(subs[e], filter_list) ELSE subs[e]]

\* subscribe(filter_list, *events): appended to each event's list unless it is
\* there already.
subscribe(subs, filter_list, events) ==
    [e \in DOMAIN subs |->
        IF e \in events /\ ~InSeq(filter_list, subs[e])
        THEN Append(subs[e], filter_list)
        ELSE subs[e]]

\* A call of subscribe by any filter list, for any events.
Subscribe ==
    /\ Len(subLog) < MaxSubscribes
    /\ \E filter_list \in SubLists, events \in SUBSET Events :
        /\ subscriptions' = subscribe(subscriptions, filter_list, events)
        /\ subLog' = Append(subLog, <<filter_list, events>>)
    /\ UNCHANGED <<filter_lists, already_warned, warnings, webhook>>
    /\ UNCHANGED <<relVars, running, loadVars, boundary, msgVars, cmdVars>>

(***************************************************************************)
(* Filtering.cog_load                                                      *)
(***************************************************************************)
\* Lines 53-56: the API answered; the loop over raw_filter_lists starts.
CogLoadFetch ==
    /\ loadPc = "start"
    /\ MayRun("load")
    /\ loadPc' = "loop"
    /\ running' = After("load", "loop")
    /\ UNCHANGED <<loadRec, loadCount, alEntry>>
    /\ UNCHANGED <<relVars, msgVars, cmdVars, cogVars, boundary>>

\* Line 57, the response is exhausted: on to fetch_webhook (line 71).
CogLoadEnd ==
    /\ loadPc = "loop"
    /\ MayRun("load")
    /\ loadPc' = "webhook"
    /\ running' = After("load", "webhook")
    /\ loadCount' = 0
    /\ UNCHANGED <<loadRec, alEntry>>
    /\ UNCHANGED <<relVars, msgVars, cmdVars, cogVars, boundary>>

\* Lines 57-66 as they would be without the already_warned test of line 61.
CogLoadUnknown_WarnsEachTime(rec) ==
    /\ rec.name \notin DOMAIN filter_lists
    /\ rec.name \notin KnownNames
    /\ already_warned' = already_warned \cup {rec.name}
    /\ warnings' = Append(warnings, rec.name)
    /\ loadPc' = "loop"
    /\ UNCHANGED <<loadRec, alEntry, filter_lists, subscriptions, subLog,
                   boundary>>

\* Lines 57-66, a record whose name has no class: warned once, skipped.
CogLoadUnknown(rec) ==
    /\ rec.name \notin DOMAIN filter_lists
    /\ rec.name \notin KnownNames
    /\ already_warned' = already_warned \cup {rec.name}
    /\ warnings' = IF rec.name \in already_warned THEN warnings
                   ELSE Append(warnings, rec.name)
    /\ loadPc' = "loop"
    /\ UNCHANGED <<loadRec, alEntry, filter_lists, subscriptions, subLog,
                   boundary>>

\* Lines 57-68, a record with a known name: its FilterList is created when
\* the name is new (the class subscribes it), and add_list is entered.
CogLoadKnown(rec) ==
    /\ rec.name \in DOMAIN filter_lists \/ rec.name \in KnownNames
    /\ LET is_new == rec.name \notin DOMAIN filter_lists
           fl == IF is_new THEN NewFilterList ELSE filter_lists[rec.name]
       IN  /\ filter_lists' =
                [n \in (DOMAIN filter_lists) \cup {rec.name} |->
                    IF n = rec.name THEN fl ELSE filter_lists[n]]
           /\ boundary' =
                [n \in (DOMAIN boundary) \cup {rec.name} |->
                    IF n = rec.name THEN fl ELSE boundary[n]]
           /\ subscriptions' =
                IF is_new
                THEN subscribe(subscriptions, rec.name, ClassEvents(rec.name))
                ELSE subscriptions
           /\ subLog' =
                IF is_new
                THEN Append(subLog, <<rec.name, ClassEvents(rec.name)>>)
                ELSE subLog
           /\ alEntry' = fl
    /\ loadRec' = rec
    /\ loadPc' = "al_defaults"
    /\ UNCHANGED <<already_warned, warnings>>

CogLoadNext(Lists) ==
    /\ loadPc = "loop"
    /\ MayRun("load")
    /\ loadCount < MaxRaw
    /\ \E rec \in Lists :
           CogLoadUnknown(rec) \/ CogLoadKnown(rec)
    /\ loadCount' = loadCount + 1
    /\ running' = After("load", loadPc')
    /\ UNCHANGED <<relVars, msgVars, cmdVars, webhook>>

\* add_list, lines 55-57.
AddListDefaults ==
    /\ loadPc = "al_defaults"
    /\ MayRun("load")
    /\ filter_lists' = [filter_lists EXCEPT ![loadRec.name] =
                            add_list_defaults(@, loadRec)]
    /\ loadPc' = "al_ids"
    /\ running' = After("load", "al_ids")
    /\ UNCHANGED <<loadRec, loadCount, alEntry>>
    /\ UNCHANGED <<relVars, msgVars, cmdVars, subscriptions, subLog,
                   already_warned, warnings, webhook, boundary>>

\* add_list, line 58.
AddListId ==
    /\ loadPc = "al_ids"
    /\ MayRun("load")
    /\ filter_lists' = [filter_lists EXCEPT ![loadRec.name] =
                            add_list_id(@, loadRec)]
    /\ loadPc' = "al_reset"
    /\ running' = After("load", "al_reset")
    /\ UNCHANGED <<loadRec, loadCount, alEntry>>
    /\ UNCHANGED <<relVars, msgVars, cmdVars, subscriptions, subLog,
                   already_warned, warnings, webhook, boundary>>

\* add_list, line 60.
AddListReset ==
    /\ loadPc = "al_reset"
    /\ MayRun("load")
    /\ filter_lists' = [filter_lists EXCEPT ![loadRec.name] =
                            add_list_reset(@, loadRec)]
    /\ loadPc' = "al_loop"
    /\ running' = After("load", "al_loop")
    /\ UNCHANGED <<loadRec, loadCount, alEntry>>
    /\ UNCHANGED <<relVars, msgVars, cmdVars, subscriptions, subLog,
                   already_warned, warnings, webhook, boundary>>

\* add_list, lines 61-62: the next filter_data of the record goes through
\* add_filter.  A KeyError leaves add_filter, add_list and cog_load, whose
\* locals are gone with it.
AddListFilter(Filters) ==
    /\ loadPc = "al_loop"
    /\ MayRun("load")
    /\ Len(loadRec.filters) < MaxRawFilters
    /\ \E filter_data \in Filters :
        LET fl == filter_lists[loadRec.name]
            outcome == add_filter_outcome(fl, filter_data, loadRec.list_type)
        IN  /\ loadRec' = IF outcome = "KeyError" THEN NoRecord
                           ELSE [loadRec EXCEPT !.filters = Append(@, filter_data)]
            /\ alEntry' = IF outcome = "KeyError" THEN NewFilterList ELSE alEntry
            /\ loadCount' = IF outcome = "KeyError" THEN 0 ELSE loadCount
            /\ filter_lists' = [filter_lists EXCEPT ![loadRec.name] =
                                 add_filter(fl, filter_data, loadRec.list_type)]
            /\ loadPc' = IF outcome = "KeyError" THEN "raised" ELSE "al_loop"
            /\ boundary' = IF outcome = "KeyError"
                           THEN [boundary EXCEPT ![loadRec.name] =
                                     filter_lists'[loadRec.name]]
                           ELSE boundary
    /\ running' = After("load", loadPc')
    /\ UNCHANGED <<relVars, msgVars, cmdVars, subscriptions, subLog,
                   already_warned, warnings, webhook>>

\* add_list returns: every filter_data of the record was handed to add_filter.
AddListReturn ==
    /\ loadPc = "al_loop"
    /\ MayRun("load")
    /\ boundary' = [boundary EXCEPT ![loadRec.name] = filter_lists[loadRec.name]]
    /\ loadPc' = "al_return"
    /\ running' = After("load", "al_return")
    /\ UNCHANGED <<loadRec, loadCount, alEntry>>
    /\ UNCHANGED <<relVars, msgVars, cmdVars, cogVars>>

\* Line 68 is done: back to the loop for the next record.
CogLoadAdvance ==
    /\ loadPc = "al_return"
    /\ MayRun("load")
    /\ loadPc' = "loop"
    /\ loadRec' = NoRecord
    /\ alEntry' = NewFilterList
    /\ running' = After("load", "loop")
    /\ UNCHANGED loadCount
    /\ UNCHANGED <<relVars, msgVars, cmdVars, cogVars, boundary>>

\* Lines 70-75: the webhook is fetched, or the fetch fails with HTTPException
\* and self.webhook stays None, and the loaded types are collected.
CogLoadFinish ==
    /\ loadPc = "webhook"
    /\ MayRun("load")
    /\ \E fetched \in BOOLEAN : webhook' = fetched
    /\ loadPc' = "done"
    /\ running' = After("load", "done")
    /\ UNCHANGED <<loadRec, loadCount, alEntry>>
    /\ UNCHANGED <<relVars, msgVars, cmdVars, filter_lists, subscriptions,
                   subLog, already_warned, warnings, boundary>>

\* cog_load reading a response whose filter lists are among Lists and whose
\* filter records are among Filters.
CogLoad(Lists, Filters) ==
    \/ CogLoadFetch
    \/ CogLoadNext(Lists)
    \/ CogLoadEnd
    \/ AddListDefaults
    \/ AddListId
    \/ AddListReset
    \/ AddListFilter(Filters)
    \/ AddListReturn
    \/ CogLoadAdvance
    \/ CogLoadFinish

(***************************************************************************)
(* Filtering.on_message and Filtering._resolve_action                      *)
(***************************************************************************)
\* d[key] = value on the messages dict (FilterList -> message).
MessagesSet(d, key, value) ==
    IF \E i \in 1..Len(d) : d[i][1] = key
    THEN [i \in 1..Len(d) |-> IF d[i][1] = key THEN <<key, value>> ELSE d[i]]
    ELSE Append(d, <<key, value>>)

\* _resolve_action as it would be if it kept only the last actions returned
\* instead of folding them all.
resolve_result_last_only(actions, messages) ==
    [actions |-> IF actions = <<>> THEN None ELSE Some(actions[Len(actions)]),
     messages |-> messages]

\* Lines 399-403: None when no list returned actions, their merge otherwise.
resolve_result(actions, messages) ==
    [actions |-> IF actions = <<>> THEN None ELSE Some(ReduceOr(actions)),
     messages |-> messages]

\* Lines 147-152 up to the first actions_for: a message by a bot or from a
\* webhook is dropped, any other gets its FilterContext and the loop of
\* _resolve_action starts.
OnMessage ==
    /\ msgPc \in {"idle", "done", "raised"}
    /\ MayRun("msg")
    /\ msgCount < MaxMessages
    /\ msgCount' = msgCount + 1
    /\ \E msg \in Messages :
        /\ msgAuthor' = [bot |-> msg.bot, webhook_id |-> msg.webhook_id]
        /\ IF msg.bot \/ msg.webhook_id
           THEN /\ msgPc' = "done"
                /\ msgCtx' = NoContext
           ELSE /\ msgPc' = "loop"
                /\ msgCtx' = FilterContext("MESSAGE", msg)
    /\ msgIdx' = 1
    /\ msgActions' = <<>>
    /\ msgMessages' = <<>>
    /\ msgResult' = NoResult
    /\ msgCalled' = <<>>
    /\ msgSeen' = <<>>
    /\ msgStart' = filter_lists
    /\ running' = After("msg", msgPc')
    /\ alerts' = <<>>
    /\ UNCHANGED <<relVars, cogVars, loadVars, boundary, cmdVars>>

\* Lines 392-397: one turn of the loop.  The list's actions_for is awaited; it
\* returns what the list decides, or it raises, and nothing in
\* _resolve_action or on_message catches that: the exception ends the task
\* and its locals are gone.
ResolveStep ==
    /\ msgPc = "loop"
    /\ MayRun("msg")
    /\ msgIdx <= Len(subscriptions[msgCtx.event])
    /\ LET filter_list == subscriptions[msgCtx.event][msgIdx]
           returned == actions_for(filter_lists[filter_list], msgCtx)
       IN  \E raises \in BOOLEAN :
             IF raises
             THEN /\ msgPc' = "raised"
                  /\ msgCtx' = NoContext
                  /\ msgIdx' = 0
                  /\ msgActions' = <<>>
                  /\ msgMessages' = <<>>
                  /\ msgCalled' = <<>>
                  /\ msgSeen' = <<>>
                  /\ msgStart' = NoLists
             ELSE /\ msgPc' = "loop"
                  /\ msgIdx' = msgIdx + 1
                  /\ msgActions' =
                         IF returned.actions # None
                         THEN Append(msgActions, returned.actions[1])
                         ELSE msgActions
                  /\ msgMessages' =
                         IF returned.message # <<>>
                         THEN MessagesSet(msgMessages, filter_list,
                                          returned.message)
                         ELSE msgMessages
                  /\ msgCalled' = Append(msgCalled, filter_list)
                  /\ msgSeen' = Append(msgSeen,
                         [list |-> filter_list,
                          returned |-> returned,
                          read |-> filter_lists[filter_list],
                          committed |-> boundary[filter_list]])
                  /\ UNCHANGED <<msgCtx, msgStart>>
    /\ running' = After("msg", msgPc')
    /\ UNCHANGED <<msgCount, msgResult, msgAuthor, alerts>>
    /\ UNCHANGED <<relVars, cogVars, loadVars, boundary, cmdVars>>

\* Lines 399-403: the loop is over, _resolve_action returns.
ResolveReturn ==
    /\ msgPc = "loop"
    /\ MayRun("msg")
    /\ msgIdx > Len(subscriptions[msgCtx.event])
    /\ msgResult' = resolve_result(msgActions, msgMessages)
    /\ msgPc' = "resolved"
    /\ running' = After("msg", "resolved")
    /\ UNCHANGED <<msgCount, msgCtx, msgIdx, msgActions, msgMessages,
                   msgCalled, msgSeen, msgStart, msgAuthor, alerts>>
    /\ UNCHANGED <<relVars, cogVars, loadVars, boundary, cmdVars>>

\* ActionSettings.action(ctx): the actions are applied to the context; the
\* send_alert entry sets ctx.send_alert, every other entry that is not a
\* no-op leaves its description.
apply_actions(actions, ctx) ==
    [ctx EXCEPT
        !.send_alert = actions["send_alert"],
        !.action_descriptions =
            {n \in (DOMAIN actions) \ {"send_alert"} :
                actions[n] # NoOpValue(n)}]

\* Lines 153-154.
ApplyActions ==
    /\ msgPc = "resolved"
    /\ MayRun("msg")
    /\ msgCtx' = IF msgResult.actions # None
                 THEN apply_actions(msgResult.actions[1], msgCtx)
                 ELSE msgCtx
    /\ msgPc' = "acted"
    /\ running' = After("msg", "acted")
    /\ UNCHANGED <<msgCount, msgIdx, msgActions, msgMessages, msgResult,
                   msgCalled, msgSeen, msgStart, msgAuthor, alerts>>
    /\ UNCHANGED <<relVars, cogVars, loadVars, boundary, cmdVars>>

\* _send_alert(ctx, triggered_filters), lines 405-408: the pair it was handed,
\* and whether it goes on to the webhook; without a webhook it returns at once.
send_alert(ctx, triggered_filters) ==
    [ctx |-> ctx, triggered_filters |-> triggered_filters, sent |-> webhook]

\* on_message as it would be if it called _send_alert without looking at
\* ctx.send_alert.
SendAlert_Unconditional ==
    /\ msgPc = "acted"
    /\ MayRun("msg")
    /\ alerts' = Append(alerts, send_alert(msgCtx, msgResult.messages))
    /\ msgPc' = "done"
    /\ msgCtx' = NoContext
    /\ msgIdx' = 0
    /\ msgActions' = <<>>
    /\ msgMessages' = <<>>
    /\ msgResult' = NoResult
    /\ msgCalled' = <<>>
    /\ msgSeen' = <<>>
    /\ msgStart' = NoLists
    /\ running' = After("msg", "done")
    /\ UNCHANGED <<msgCount, msgAuthor>>
    /\ UNCHANGED <<relVars, cogVars, loadVars, boundary, cmdVars>>

\* Lines 155-156, and on_message returns: its locals are gone.
SendAlert ==
    /\ msgPc = "acted"
    /\ MayRun("msg")
    /\ alerts' = IF msgCtx.send_alert
                 THEN Append(alerts, send_alert(msgCtx, msgResult.messages))
                 ELSE alerts
    /\ msgPc' = "done"
    /\ msgCtx' = NoContext
    /\ msgIdx' = 0
    /\ msgActions' = <<>>
    /\ msgMessages' = <<>>
    /\ msgResult' = NoResult
    /\ msgCalled' = <<>>
    /\ msgSeen' = <<>>
    /\ msgStart' = NoLists
    /\ running' = After("msg", "done")
    /\ UNCHANGED <<msgCount, msgAuthor>>
    /\ UNCHANGED <<relVars, cogVars, loadVars, boundary, cmdVars>>

OnMessageTask ==
    \/ OnMessage
    \/ ResolveStep
    \/ ResolveReturn
    \/ ApplyActions
    \/ SendAlert

(***************************************************************************)
(* Filtering._get_list_by_name, _resolve_list_type_and_name, f_add         *)
(***************************************************************************)
\* str.endswith("s") and list_name[:-1] on the names a command can name.
EndsWithS(list_name) == list_name \in {"tokens"}
DropLast(list_name) ==
    IF list_name = "tokens" THEN "token"
    ELSE IF list_name = "token" THEN "toke"
    ELSE IF list_name = "Token" THEN "Toke"
    ELSE IF list_name = "invite" THEN "invit"
    ELSE "nosuc"

\* _get_list_by_name: the name under which the list is registered, or None
\* where the code raises BadArgument.
get_list_by_name(lists, list_name) ==
    IF list_name \in DOMAIN lists THEN Some(list_name)
    ELSE IF EndsWithS(list_name) /\ DropLast(list_name) \in DOMAIN lists
         THEN Some(DropLast(list_name))
    ELSE None

\* _get_filter_by_id: the filter with the id, the name of its list and its
\* list type, or None.  Ids are the database's keys, so one sublist at most
\* holds an id; where the catalog repeats an id the code returns the first in
\* the dicts' iteration order, of which the model keeps no record, and any of
\* them stands for it.
get_filter_by_id(lists, id_) ==
    LET holders == {h \in (DOMAIN lists) \X ListTypes :
                        /\ h[2] \in DOMAIN lists[h[1]].filter_lists
                        /\ id_ \in DictKeys(lists[h[1]].filter_lists[h[2]])}
    IN  IF holders = {} THEN None
        ELSE LET h == CHOOSE x \in holders : TRUE
                 sublist == lists[h[1]].filter_lists[h[2]]
                 i == CHOOSE k \in 1..Len(sublist) : sublist[k].id = id_
             IN  Some(<<sublist[i], h[1], h[2]>>)

\* list(filter_list.filter_lists)[0] when the dict holds exactly one key.
OnlyKey(d) == CHOOSE t \in DOMAIN d : TRUE

\* f_add up to its POST (lines 296-303): how far it gets, and with which list
\* type.  "posting": the POST is awaited.  "asked_name", "asked_type": the
\* user is prompted and the command returns.  "BadArgument", "IndexError",
\* "KeyError": the command raises.
f_add_resolve(lists, args) ==
    IF args.list_name = None THEN [out |-> "asked_name", list_type |-> DENY]
    ELSE
    LET found == get_list_by_name(lists, args.list_name[1])
    IN  IF found = None THEN [out |-> "BadArgument", list_type |-> DENY]
        ELSE
        LET fl == lists[found[1]]
            n_types == Cardinality(DOMAIN fl.filter_lists)
        IN  IF args.list_type = None /\ n_types > 1
            THEN [out |-> "asked_type", list_type |-> DENY]
            ELSE IF args.list_type = None /\ n_types = 0
            THEN [out |-> "IndexError", list_type |-> DENY]
            ELSE
            LET list_type == IF args.list_type = None
                             THEN OnlyKey(fl.filter_lists)
                             ELSE args.list_type[1]
            IN  IF list_type \notin DOMAIN fl.list_ids
                THEN [out |-> "KeyError", list_type |-> list_type]
                ELSE [out |-> "posting", list_type |-> list_type]

\* Lines 296-303: the command is invoked and runs up to the POST.
FAdd(Args) ==
    /\ cmdPc \in {"idle", "done", "raised"}
    /\ MayRun("cmd")
    /\ cmdCount < MaxCommands
    /\ cmdCount' = cmdCount + 1
    /\ \E args \in Args :
        LET r == f_add_resolve(filter_lists, args)
        IN  /\ cmdArgs' = args
            /\ cmdOut' = r.out
            /\ cmdType' = r.list_type
            /\ cmdList' = IF r.out \in {"posting", "KeyError"}
                          THEN get_list_by_name(filter_lists, args.list_name[1])[1]
                          ELSE ""
            /\ cmdPc' = IF r.out = "posting" THEN "posting"
                        ELSE IF r.out \in {"asked_name", "asked_type"}
                        THEN "done"
                        ELSE "raised"
    /\ running' = After("cmd", cmdPc')
    /\ UNCHANGED <<relVars, cogVars, loadVars, boundary, msgVars>>

\* Lines 303-305: the API answered the POST; the record goes through
\* add_filter and its id is reported.  The command is over and its locals
\* are gone.
FAddPosted(Broken) ==
    /\ cmdPc = "posting"
    /\ MayRun("cmd")
    /\ \E result \in PostResults(cmdArgs.content, Broken) :
        LET fl == filter_lists[cmdList]
            outcome == add_filter_outcome(fl, result, cmdType)
        IN  /\ filter_lists' = [filter_lists EXCEPT ![cmdList] =
                                    add_filter(fl, result, cmdType)]
            /\ boundary' = [boundary EXCEPT ![cmdList] = filter_lists'[cmdList]]
            /\ cmdOut' = IF outcome = "KeyError" THEN "KeyError"
                         ELSE IF result.shape # "ok" THEN "TypeError"
                         ELSE "added"
            /\ cmdPc' = IF cmdOut' = "added" THEN "done" ELSE "raised"
    /\ cmdArgs' = NoArgs
    /\ cmdType' = DENY
    /\ cmdList' = ""
    /\ running' = After("cmd", cmdPc')
    /\ UNCHANGED cmdCount
    /\ UNCHANGED <<relVars, subscriptions, subLog, already_warned, warnings, webhook,
                   loadVars, msgVars>>

\* The command with arguments among Args and, besides the persisted record,
\* the answers Broken to its POST.
FAddTask(Args, Broken) == FAdd(Args) \/ FAddPosted(Broken)

(***************************************************************************)
(* The specifications.                                                     *)
(***************************************************************************)
Init == RelIdle /\ CogInit

\* The cog at work: it loads deny lists, moderators add filters, messages
\* are filtered.
SystemLists ==
    {RawList("token", DENY, ListSettingsA), RawList("invite", DENY, ListSettingsB)}
        \cup {RawList(n, DENY, ListSettingsA) : n \in UnknownNames}
SystemFilters ==
    {OkFilter(1, "spam", NoOverrides), OkFilter(2, "spam", SomeOverrides),
     NoIdFilter}
SystemArgs ==
    {a \in CommandArgs :
        a.list_name \in {Some("token"), Some("invite")}
        /\ a.list_type = None}

Next ==
    \/ CogLoad(SystemLists, SystemFilters)
    \/ OnMessageTask
    \/ FAddTask(SystemArgs, {})

Spec == Init /\ [][Next]_vars

\* Loading alone, over every filter list record and filter record.
LoadNext == CogLoad(RawLists, RawFilters)

SpecLoad == Init /\ [][LoadNext]_vars

\* subscribe alone, called by any filter list for any events.
SubNext == Subscribe

SpecSub == Init /\ [][SubNext]_vars

\* Commands over every argument and every answer to the POST, on lists of
\* either type.
CmdLists == {r \in RawLists : r.settings = ListSettingsA}
CmdFilters == {OkFilter(1, "spam", NoOverrides), NoIdFilter}

CmdNext ==
    \/ CogLoad(CmdLists, CmdFilters)
    \/ FAddTask(CommandArgs, {NoIdFilter, NotADictFilter})

SpecCmd == Init /\ [][CmdNext]_vars

(***************************************************************************)
(* Claims about filter_list_result, checked under SpecRel.                 *)
(***************************************************************************)
InList(f, list) == \E i \in 1..Len(list) : list[i] = f
RelFilterSet == {relFilters[i] : i \in 1..Len(relFilters)}
HasOverrides(f) == DOMAIN f.validations # {}
RelPassed(f) == evaluate(f.validations, relCtx)[1]
RelFailed(f) == evaluate(f.validations, relCtx)[2]
RelFailedByDefault == evaluate(relDefaults, relCtx)[2]

\* C1: a filter with validation overrides is returned iff no override failed,
\* the failed defaults are a subset of (possibly equal to) the passed
\* overrides, and the filter triggers.
C1_OverrideRelevance ==
    relPc = "done" =>
        \A f \in RelFilterSet :
            HasOverrides(f) =>
                (InList(f, relResult) <=>
                    /\ RelFailed(f) = {}
                    /\ RelFailedByDefault \subseteq RelPassed(f)
                    /\ triggered_on(f, relCtx))

\* C2: a filter without validation overrides is returned iff no default
\* validation failed and the filter triggers; an empty default group fails
\* nothing.
C2_NoOverrideRelevance ==
    relPc = "done" =>
        /\ \A f \in RelFilterSet :
               ~HasOverrides(f) =>
                   (InList(f, relResult) <=>
                       RelFailedByDefault = {} /\ triggered_on(f, relCtx))
        /\ (DOMAIN relDefaults = {} => RelFailedByDefault = {})

\* A default validation failed and a filter without overrides matches the
\* content, yet it was not returned.
C2_Witness ==
    /\ relPc = "done"
    /\ RelFailedByDefault # {}
    /\ \E f \in RelFilterSet :
           ~HasOverrides(f) /\ triggered_on(f, relCtx) /\ ~InList(f, relResult)
    /\ \E f \in RelFilterSet : HasOverrides(f) /\ InList(f, relResult)

\* C3: a filter with overrides is never returned when some failed default is
\* missing from its passed overrides.
C3_PartialOverrideNeverRelevant ==
    relPc = "done" =>
        \A f \in RelFilterSet :
            (HasOverrides(f) /\ ~(RelFailedByDefault \subseteq RelPassed(f)))
                => ~InList(f, relResult)

\* Two defaults failed, a filter overrides one of them, all its overrides
\* pass and its content matches.
C3_Witness ==
    /\ relPc = "done"
    /\ Cardinality(RelFailedByDefault) = 2
    /\ \E f \in RelFilterSet :
           /\ Cardinality(RelPassed(f)) = 1
           /\ RelFailed(f) = {}
           /\ triggered_on(f, relCtx)
           /\ ~InList(f, relResult)

\* C4: when no default failed and none of a filter's overrides failed, the
\* filter is returned iff it triggers, whatever the overrides are.
C4_TrivialOverridesRelevant ==
    relPc = "done" =>
        \A f \in RelFilterSet :
            (HasOverrides(f) /\ RelFailedByDefault = {} /\ RelFailed(f) = {})
                => (InList(f, relResult) <=> triggered_on(f, relCtx))

\* The defaults hold settings that all pass, and two filters with different
\* passing overrides (one setting, two settings) are both returned.
C4_Witness ==
    /\ relPc = "done"
    /\ DOMAIN relDefaults # {}
    /\ RelFailedByDefault = {}
    /\ \E f, g \in RelFilterSet :
           /\ HasOverrides(f) /\ HasOverrides(g)
           /\ RelFailed(f) = {} /\ RelFailed(g) = {}
           /\ Cardinality(RelPassed(f)) = 1
           /\ Cardinality(RelPassed(g)) = 2
           /\ InList(f, relResult) /\ InList(g, relResult)

(***************************************************************************)
(* Claims about add_list and add_filter, checked under SpecLoad.           *)
(***************************************************************************)
\* The FilterList add_list is working on, the list type of its record, and
\* the positions of the well-formed filter records it was handed.
AlList == filter_lists[loadRec.name]
AlType == loadRec.list_type
AlOk == {j \in 1..Len(loadRec.filters) : loadRec.filters[j].shape = "ok"}
SeqSet(list) == {list[i] : i \in 1..Len(list)}

\* add_list was called on a list type the FilterList already held, with the
\* id it already had, and stands at one of pcs.
SecondAddList(pcs) ==
    /\ loadPc \in pcs
    /\ AlType \in DOMAIN alEntry.filter_lists
    /\ alEntry.list_ids[AlType] = loadRec.id

ReloadReplaced(list) ==
    /\ list.list_ids[AlType] = loadRec.id
    /\ list.defaults[AlType] = create_settings(loadRec.settings, TRUE)
    /\ \A f \in SeqSet(list.filter_lists[AlType]) :
           \E j \in AlOk :
               /\ f = Filter(loadRec.filters[j])
               /\ \A k \in AlOk : k > j => loadRec.filters[k].id # f.id
    /\ \A j \in AlOk :
           loadRec.filters[j].id \in DictKeys(list.filter_lists[AlType])

C6_MalformedRecordSkipped ==
    /\ loadPc # "raised"
    /\ loadPc \in {"al_loop", "al_return"} =>
           \A j \in AlOk :
               loadRec.filters[j].id \in DictKeys(AlList.filter_lists[AlType])

(***************************************************************************)
(* Claims about _resolve_action, checked under Spec.                       *)
(***************************************************************************)
\* The filter lists subscribed to the event of the context at hand.
MsgSubs == subscriptions[msgCtx.event]

\* The positions of the calls of actions_for that returned actions, and the
\* actions they returned, in the order of the calls.
RECURSIVE ReturnedActions(_)
ReturnedActions(n) ==
    IF n = 0 THEN <<>>
    ELSE IF msgSeen[n].returned.actions # None
         THEN Append(ReturnedActions(n - 1), msgSeen[n].returned.actions[1])
         ELSE ReturnedActions(n - 1)

\* C7: when the actions_for of one subscribed filter list raises, the other
\* filter lists subscribed to the event are still evaluated and what they
\* return is still part of the result: the step in which a call raises ends
\* _resolve_action only if no other list is left to evaluate and no list
\* before it had actions or a message to contribute.  Stated of the cog once
\* cog_load has completed.
C7_FailureIsolated ==
    [][(loadPc = "done" /\ msgPc = "loop" /\ msgPc' = "raised")
            => /\ msgIdx = Len(MsgSubs)
               /\ msgActions = <<>>
               /\ msgMessages = <<>>]_vars

\* C8: when _resolve_action returns, actions_for was awaited on exactly the
\* filter lists subscribed to ctx.event, once each and in their order; the
\* actions returned are None when no call returned any and else the fold with
\* | of exactly the actions the calls returned; and the messages hold one
\* entry per list that returned a non-empty message, and no other.
C8_ResolveActionResult ==
    [][(msgPc = "loop" /\ msgPc' = "resolved")
            => /\ msgCalled = MsgSubs
               /\ Len(msgSeen) = Len(msgCalled)
               /\ \A i \in 1..Len(msgSeen) : msgSeen[i].list = msgCalled[i]
               /\ \A i, j \in 1..Len(msgCalled) :
                      msgCalled[i] = msgCalled[j] => i = j
               /\ LET returned == ReturnedActions(Len(msgSeen))
                  IN  msgResult'.actions =
                          IF returned = <<>> THEN None
                          ELSE Some(ReduceOr(returned))
               /\ \A i \in 1..Len(msgSeen) :
                      msgSeen[i].returned.message # <<>> =>
                          InSeq(<<msgSeen[i].list, msgSeen[i].returned.message>>,
                                msgResult'.messages)
               /\ \A k \in 1..Len(msgResult'.messages) :
                      \E i \in 1..Len(msgSeen) :
                          /\ msgSeen[i].returned.message # <<>>
                          /\ msgResult'.messages[k] =
                                 <<msgSeen[i].list, msgSeen[i].returned.message>>
               /\ \A k, l \in 1..Len(msgResult'.messages) :
                      msgResult'.messages[k][1] = msgResult'.messages[l][1]
                          => k = l]_vars

\* Two subscribed lists both triggered, one with delete_messages and one with
\* send_alert: the result holds both actions and both messages.
C8_Witness ==
    /\ loadPc = "done"
    /\ msgPc = "resolved"
    /\ Len(msgSeen) = 2
    /\ msgSeen[1].returned.actions # None
    /\ msgSeen[2].returned.actions # None
    /\ msgSeen[1].returned.actions # msgSeen[2].returned.actions
    /\ msgResult.actions # None
    /\ msgResult.actions[1]["delete_messages"]
    /\ msgResult.actions[1]["send_alert"]
    /\ Len(msgResult.messages) = 2

\* The rearrangements of a list of actions.
Orders(n) ==
    {p \in [1..n -> 1..n] : \A i, j \in 1..n : p[i] = p[j] => i = j}
NoActions == create_settings(NoOverrides, TRUE).actions

C10_NoTornRead ==
    \A i \in 1..Len(msgSeen) : msgSeen[i].read = msgSeen[i].committed

\* A _resolve_action under way has evaluated one list; the other list was
\* changed by add_list or add_filter after on_message began, and was then
\* evaluated as changed.
C10_Witness ==
    /\ loadPc = "done"
    /\ msgPc = "loop"
    /\ Len(msgSeen) = 2
    /\ msgSeen[2].list \in DOMAIN msgStart
    /\ msgSeen[2].read # msgStart[msgSeen[2].list]
    /\ msgSeen[2].read.filter_lists # NewFilterList.filter_lists

(***************************************************************************)
(* Claims about on_message, checked under Spec.                            *)
(***************************************************************************)
\* A step that changes the accumulators of the context of the message at
\* hand, and a step that hands an alert to _send_alert.
CtxChanges ==
    /\ msgCtx # NoContext
    /\ msgCtx' # NoContext
    /\ msgCtx' # msgCtx
AlertForwarded == Len(alerts') > Len(alerts)

\* C11: in on_message the merged actions are applied to the context only
\* once every filter list subscribed to the event has returned, and nothing
\* else changes the context; the alert is handed to _send_alert, with the
\* context and the message map, only after that and exactly when
\* ctx.send_alert is then true; a message by a bot or from a webhook is
\* neither evaluated nor acted on nor alerted about.
C11_PipelineOrder ==
    [][/\ CtxChanges =>
            /\ msgPc = "resolved" /\ msgPc' = "acted"
            /\ msgResult.actions # None
            /\ msgCtx' = apply_actions(msgResult.actions[1], msgCtx)
            /\ msgCalled = MsgSubs
            /\ Len(msgSeen) = Len(MsgSubs)
       /\ (msgPc = "resolved" /\ msgPc' = "acted" /\ msgResult.actions # None)
            => msgCtx' = apply_actions(msgResult.actions[1], msgCtx)
       /\ AlertForwarded =>
            /\ msgPc = "acted" /\ msgPc' = "done"
            /\ msgCtx.send_alert
            /\ alerts' = <<[ctx |-> msgCtx,
                            triggered_filters |-> msgResult.messages,
                            sent |-> webhook]>>
       /\ (msgPc = "acted" /\ msgPc' = "done" /\ msgCtx.send_alert)
            => AlertForwarded
       /\ (msgCount' # msgCount /\ (msgAuthor'.bot \/ msgAuthor'.webhook_id))
            => /\ msgPc' = "done"
               /\ msgCalled' = <<>>
               /\ msgCtx' = NoContext
               /\ alerts' = <<>>
       /\ (msgAuthor.bot \/ msgAuthor.webhook_id)
            => (msgCount' = msgCount => UNCHANGED msgVars)]_vars

\* A message went through the whole of on_message: two lists returned their
\* verdicts, the actions were applied and left send_alert set, and the alert
\* was handed over with both lists' messages.
C11_Witness ==
    /\ msgPc = "done"
    /\ msgAuthor = NoAuthor
    /\ Len(alerts) = 1
    /\ alerts[1].ctx.send_alert
    /\ alerts[1].ctx.action_descriptions # {}
    /\ Len(alerts[1].triggered_filters) = 2

(***************************************************************************)
(* Claims about subscribe, checked under SpecSub.                          *)
(***************************************************************************)
\* The filter lists that were subscribed to the event, and the first call
\* that subscribed the filter list to the event.
EverSubscribed(e) ==
    {subLog[i][1] : i \in {k \in 1..Len(subLog) : e \in subLog[k][2]}}
FirstSubscribed(filter_list, e) ==
    CHOOSE i \in 1..Len(subLog) :
        /\ subLog[i][1] = filter_list
        /\ e \in subLog[i][2]
        /\ \A k \in 1..(i - 1) :
               ~(subLog[k][1] = filter_list /\ e \in subLog[k][2])
IsPrefix(a, b) == Len(a) <= Len(b) /\ SubSeq(b, 1, Len(a)) = a

\* C12: after any sequence of subscribe calls every event's list holds each
\* filter list at most once, holds exactly the filter lists ever subscribed to
\* the event, and keeps them in the order of their first subscription; a call
\* for a list that is subscribed already changes nothing, and no step removes
\* a subscription.
C12_Subscriptions ==
    /\ [](\A e \in Events :
            LET subs == subscriptions[e]
            IN  /\ \A i, j \in 1..Len(subs) : subs[i] = subs[j] => i = j
                /\ SeqSet(subs) = EverSubscribed(e)
                /\ \A i, j \in 1..Len(subs) :
                       i < j => FirstSubscribed(subs[i], e)
                                    < FirstSubscribed(subs[j], e))
    /\ [][\A e \in Events :
            /\ IsPrefix(subscriptions[e], subscriptions'[e])
            /\ (Len(subLog') > Len(subLog)
                /\ InSeq(subLog'[Len(subLog')][1], subscriptions[e]))
                   => subscriptions'[e] = subscriptions[e]]_vars

\* token, then invite, then token again were subscribed to MESSAGE: the list
\* holds token and invite, in that order.
C12_Witness ==
    /\ Len(subLog) = 3
    /\ subLog[1][1] = "token" /\ "MESSAGE" \in subLog[1][2]
    /\ subLog[2][1] = "invite" /\ "MESSAGE" \in subLog[2][2]
    /\ subLog[3][1] = "token" /\ "MESSAGE" \in subLog[3][2]
    /\ subscriptions["MESSAGE"] = <<"token", "invite">>

(***************************************************************************)
(* Claims about the records cog_load reads, checked under SpecLoad.        *)
(***************************************************************************)
\* The step of the loop of cog_load that reads the next record.
ReadsRecord == loadPc = "loop" /\ loadCount' = loadCount + 1

\* The record read had no class: nothing is created or subscribed, add_list is
\* not entered, the loop goes on, and the name is warned about unless it was.
SkippedUnknown ==
    /\ loadPc' = "loop"
    /\ loadRec' = NoRecord
    /\ UNCHANGED <<filter_lists, subscriptions, boundary>>
    /\ \E n \in UnknownNames :
        /\ already_warned' = already_warned \cup {n}
        /\ warnings' = IF n \in already_warned THEN warnings
                       ELSE Append(warnings, n)

\* The record read had a class: add_list is entered on the FilterList of its
\* name, the one that was there or else a new one, and no other list changes.
LoadedKnown ==
    /\ loadPc' = "al_defaults"
    /\ loadRec' \in RawLists
    /\ loadRec'.name \in KnownNames
    /\ DOMAIN filter_lists' = DOMAIN filter_lists \cup {loadRec'.name}
    /\ \A n \in DOMAIN filter_lists : filter_lists'[n] = filter_lists[n]
    /\ loadRec'.name \notin DOMAIN filter_lists
           => filter_lists'[loadRec'.name] = NewFilterList
    /\ UNCHANGED <<already_warned, warnings>>

\* C13: a record of cog_load's response whose name has no class is skipped
\* whole (no filter list created, add_list not called) and warned about once
\* per name; every record with a known name, read before or after unknown
\* ones, enters add_list on the one FilterList of its name.
C13_UnknownNameSkipped ==
    /\ [](/\ DOMAIN filter_lists \subseteq KnownNames
          /\ already_warned \subseteq UnknownNames
          /\ SeqSet(warnings) = already_warned
          /\ \A i, j \in 1..Len(warnings) : warnings[i] = warnings[j] => i = j)
    /\ [][/\ ReadsRecord => (SkippedUnknown \/ LoadedKnown)
          /\ ~ReadsRecord => UNCHANGED <<already_warned, warnings>>
          /\ DOMAIN filter_lists' # DOMAIN filter_lists => ReadsRecord]_vars

\* The unknown name was read first and warned about, and the record of invite
\* after it went through add_list.
C13_Witness ==
    /\ loadPc = "al_return"
    /\ loadCount = 2
    /\ warnings = <<"ghost">>
    /\ DOMAIN filter_lists = {"invite"}
    /\ loadRec.name = "invite"
    /\ filter_lists["invite"].filter_lists[loadRec.list_type] # <<>>

(***************************************************************************)
(* Claims about the lookups of the commands, checked under SpecCmd.        *)
(***************************************************************************)
\* The name in lower case, on the names a command can name.
LowerCase(list_name) == IF list_name = "Token" THEN "token" ELSE list_name

\* The loaded lists whose name is list_name, or list_name without one trailing
\* 's', both compared without regard to case.
ListsNamed(lists, list_name) ==
    {m \in DOMAIN lists :
        \/ LowerCase(m) = LowerCase(list_name)
        \/ EndsWithS(list_name)
           /\ LowerCase(m) = LowerCase(DropLast(list_name))}

\* C14: _get_list_by_name(n) returns the loaded list whose name equals n,
\* case-insensitively, or n without one trailing 's', and raises BadArgument
\* exactly when there is none; _get_filter_by_id returns the filter, its list
\* and its list type when some loaded list holds the id, and None otherwise.
C14_Lookups ==
    /\ \A n \in ListNameArgs :
        LET found == get_list_by_name(filter_lists, n)
        IN  IF ListsNamed(filter_lists, n) = {}
            THEN found = None
            ELSE found # None /\ found[1] \in ListsNamed(filter_lists, n)
    /\ \A id_ \in 0..NewFilterId :
        LET found == get_filter_by_id(filter_lists, id_)
            held == \E n \in DOMAIN filter_lists :
                        \E t \in DOMAIN filter_lists[n].filter_lists :
                            id_ \in DictKeys(filter_lists[n].filter_lists[t])
        IN  IF ~held THEN found = None
            ELSE /\ found # None
                 /\ found[1][1].id = id_
                 /\ found[1][2] \in DOMAIN filter_lists
                 /\ found[1][3] \in DOMAIN filter_lists[found[1][2]].filter_lists
                 /\ InSeq(found[1][1],
                          filter_lists[found[1][2]].filter_lists[found[1][3]])

\* The list types under which the FilterList holds an id, defaults, filters.
SameKeys(fl) ==
    /\ DOMAIN fl.list_ids = DOMAIN fl.filter_lists
    /\ DOMAIN fl.defaults = DOMAIN fl.filter_lists

\* add_list is between its entry and line 60 on the list of that name.
InsideAddList(n, pcs) == loadPc \in pcs /\ loadRec.name = n

\* The step in which `filter add` is invoked.
Invoked == cmdCount' = cmdCount + 1

\* C15: after any sequence of add_list and add_filter calls, rejected records
\* included, list_ids, defaults and filter_lists of a FilterList have the same
\* list types as keys, and a registered FilterList has at least one list type
\* once the add_list that cog_load calls on it has set it up; so `filter add`
\* finds list(filter_list.filter_lists)[0] and list_ids[list_type] defined
\* for every list type the list holds.
C15_KeySetsAgree ==
    /\ [](\A n \in DOMAIN filter_lists :
            /\ InsideAddList(n, {"al_ids", "al_reset"})
                   \/ SameKeys(filter_lists[n])
            /\ InsideAddList(n, {"al_defaults", "al_ids", "al_reset"})
                   \/ DOMAIN filter_lists[n].filter_lists # {})
    /\ [][Invoked =>
            /\ \A n \in DOMAIN filter_lists :
                   /\ SameKeys(filter_lists[n])
                   /\ DOMAIN filter_lists[n].filter_lists # {}
            /\ cmdOut' # "IndexError"
            /\ cmdOut' = "KeyError" =>
                   /\ cmdArgs'.list_type # None
                   /\ cmdArgs'.list_type[1]
                          \notin DOMAIN filter_lists[cmdList'].filter_lists
            /\ cmdOut' = "posting" =>
                   /\ cmdType' \in DOMAIN filter_lists[cmdList'].list_ids
                   /\ cmdType' \in DOMAIN filter_lists[cmdList'].filter_lists]_vars

\* cog_load ended on a record without id, and `filter add invite spam`, with
\* no list type given, found invite's only list type and its id.
C15_Witness ==
    /\ loadPc = "raised"
    /\ cmdPc = "posting"
    /\ cmdArgs.list_type = None
    /\ cmdList = "invite"
    /\ DOMAIN filter_lists = {"token", "invite"}
    /\ DOMAIN filter_lists["invite"].filter_lists = {cmdType}
    /\ filter_lists["invite"].filter_lists[cmdType] = <<>>

====
